---- MODULE Spec2Model ----
(***************************************************************************)
(* A model of md2conf/converter.py: the XML fragment builder, the          *)
(* depth-first NodeVisitor, the Confluence storage format converter and    *)
(* cleaner, the ConfluenceDocument assembler and the sanitize entry point. *)
(*                                                                         *)
(* An element is a record [tag, attrib, text, children]:                   *)
(*   tag       a string; "#comment" for an XML comment node (lxml keeps    *)
(*             comments as children whose tag is not a string), "root"     *)
(*             for the synthetic root of element_from_string_list;         *)
(*   attrib    the ordered sequence of <<key, value>> pairs;               *)
(*   text      the text content; <<>> is Python's None;                    *)
(*   children  the ordered sequence of child elements.                     *)
(* Every string value (attribute value, text) is a sequence of tokens, so  *)
(* that the regular expressions and urlparse of the source are computed    *)
(* on it rather than assumed.                                              *)
(***************************************************************************)
EXTENDS Integers, Sequences, FiniteSets, TLC

VARIABLES entry, html, pc, err, id, root, stack, links, images,
          doc_links, doc_images, out, transformed, visited, replaced, last

vars == <<entry, html, pc, err, id, root, stack, links, images,
          doc_links, doc_images, out, transformed, visited, replaced, last>>

----------------------------------------------------------------------------
(* Elements and attribute maps *)

El(tag, attrib, text, children) ==
  [tag |-> tag, attrib |-> attrib, text |-> text, children |-> children]

\* `key in attrib`
HasAttr(attrib, key) == \E i \in 1..Len(attrib) : attrib[i][1] = key

\* attrib[key], for a key that is present
Attr(attrib, key) ==
  attrib[CHOOSE i \in 1..Len(attrib) : attrib[i][1] = key][2]

\* attrib.pop(key, None): the other pairs keep their order
Pop(attrib, key) ==
  LET keep(p) == p[1] # key IN SelectSeq(attrib, keep)

\* the placeholder for "no element" (Python's None as a transform result)
NoNode == El("#none", <<>>, <<>>, <<>>)

NoErr == [kind |-> "none", at |-> "none"]

RECURSIVE NodeAt(_, _)
\* the element reached from node by the child indexes of path
NodeAt(node, path) ==
  IF path = <<>> THEN node
  ELSE NodeAt(node.children[Head(path)], Tail(path))

RECURSIVE ReplaceAt(_, _, _)
\* node with the element at path replaced by new (node[index] = target)
ReplaceAt(node, path, new) ==
  IF path = <<>> THEN new
  ELSE [node EXCEPT !.children =
          [@ EXCEPT ![Head(path)] = ReplaceAt(@, Tail(path), new)]]

IsPrefix(s, t) == Len(s) <= Len(t) /\ SubSeq(t, 1, Len(s)) = s

RECURSIVE Concat(_)
Concat(ss) == IF ss = <<>> THEN <<>> ELSE Head(ss) \o Concat(Tail(ss))

----------------------------------------------------------------------------
(* is_absolute_url: bool(urlparse(url).netloc) *)

\* tokens that urlparse reads as a scheme ("<letters>:") at the start of a URL
SchemeTokens == {"https:", "mailto:"}

\* tokens that end a network location (a path, query or fragment part)
PathTokens == {"/y", "./doc.md", "a@b"}

\* urlparse(url).netloc: after an optional scheme, "//" opens the network
\* location, which runs up to the next path token; "" when there is none
Netloc(url) ==
  LET rest == IF url # <<>> /\ Head(url) \in SchemeTokens THEN Tail(url) ELSE url
  IN IF Len(rest) >= 2 /\ rest[1] = "//" /\ rest[2] \notin PathTokens
     THEN rest[2] ELSE ""

\* the test as it would be if it looked at the scheme instead of the netloc
is_absolute_url_by_scheme(url) == url # <<>> /\ Head(url) \in SchemeTokens

is_absolute_url(url) == Netloc(url) # ""

----------------------------------------------------------------------------
(* element_from_string_list *)

\* tokens that cannot stand unescaped in XML text or in an attribute value
XmlSpecial == {"&", "<"}

HasSpecial(value) == \E i \in 1..Len(value) : value[i] \in XmlSpecial

\* a piece of markup the XML parser rejects
SyntaxError == El("#syntax-error", <<>>, <<>>, <<>>)

WellFormed(items) == \A i \in 1..Len(items) : items[i].tag # "#syntax-error"

\* the synthetic root with its two namespace declarations
SyntheticRoot(items) ==
  El("root",
     << <<"xmlns:ac", <<"http://atlassian.com/content">> >>,
        <<"xmlns:ri", <<"http://atlassian.com/resource/identifier">> >> >>,
     <<>>, items)

\* items: the elements the concatenated strings parse to, in order.
\* root if len(root) > 1, else root[0] (IndexError on an empty root);
\* XMLSyntaxError is raised as ParseError.
element_from_string_list(items) ==
  IF ~WellFormed(items) THEN [err |-> "ParseError", node |-> NoNode]
  ELSE IF Len(items) > 1 THEN [err |-> "none", node |-> SyntheticRoot(items)]
  ELSE IF Len(items) = 1 THEN [err |-> "none", node |-> items[1]]
  ELSE [err |-> "IndexError", node |-> NoNode]

element_from_string(items) == element_from_string_list(items)

----------------------------------------------------------------------------
(* The recognized languages *)

_languages ==
  { "actionscript3", "bash", "csharp", "coldfusion", "cpp", "css", "delphi",
    "diff", "erlang", "groovy", "html", "java", "javafx", "javascript",
    "json", "perl", "php", "powershell", "python", "ruby", "scala", "sql",
    "vb", "xml" }

----------------------------------------------------------------------------
(* ConfluenceStorageFormatConverter *)

\* The result of a transform call: kind is "node" (a replacement, target),
\* "none" (None returned; child is the element as the call left it) or
\* "error" (an exception, err); links and images are the lists afterwards.
Result(kind, target, child, lks, imgs, e) ==
  [kind |-> kind, target |-> target, child |-> child,
   links |-> lks, images |-> imgs, err |-> e]

_transform_link(anchor, lks, imgs) ==
  IF ~HasAttr(anchor.attrib, "href")
  THEN Result("error", NoNode, anchor, lks, imgs, "KeyError")
  ELSE LET url == Attr(anchor.attrib, "href")
       IN Result("none", NoNode, anchor,
                 IF ~is_absolute_url(url) THEN Append(lks, url) ELSE lks,
                 imgs, "none")

\* the f-strings of _transform_image, parsed: XML special characters in
\* path or caption make the markup ill-formed
ImageMacro(path, caption) ==
  IF HasSpecial(path) \/ HasSpecial(caption) THEN SyntaxError
  ELSE El("ac:image",
          << <<"ac:align", <<"center">> >>, <<"ac:layout", <<"center">> >> >>,
          <<>>,
          << El("ri:attachment", << <<"ri:filename", path>> >>, <<>>, <<>>),
             El("ac:caption", <<>>, <<>>, << El("p", <<>>, caption, <<>>) >>) >>)

\* the image transform as it would be if it put the path in front
_transform_image_prepend(child, image, lks, imgs) ==
  IF ~HasAttr(image.attrib, "src")
  THEN Result("error", NoNode, child, lks, imgs, "KeyError")
  ELSE LET path == Attr(image.attrib, "src")
           appended == <<path>> \o imgs
       IN IF ~HasAttr(image.attrib, "alt")
          THEN Result("error", NoNode, child, lks, appended, "KeyError")
          ELSE LET r == element_from_string_list(
                          <<ImageMacro(path, Attr(image.attrib, "alt"))>>)
               IN IF r.err # "none"
                  THEN Result("error", NoNode, child, lks, appended, r.err)
                  ELSE Result("node", r.node, child, lks, appended, "none")

_transform_image(child, image, lks, imgs) ==
  IF ~HasAttr(image.attrib, "src")
  THEN Result("error", NoNode, child, lks, imgs, "KeyError")
  ELSE LET path == Attr(image.attrib, "src")
           appended == Append(imgs, path)
       IN IF ~HasAttr(image.attrib, "alt")
          THEN Result("error", NoNode, child, lks, appended, "KeyError")
          ELSE LET r == element_from_string_list(
                          <<ImageMacro(path, Attr(image.attrib, "alt"))>>)
               IN IF r.err # "none"
                  THEN Result("error", NoNode, child, lks, appended, r.err)
                  ELSE Result("node", r.node, child, lks, appended, "none")

\* re.match("^language-(.*)$", language): matched, and group(1)
LanguageMatch(class) == class # <<>> /\ Head(class) = "language-"
LanguageGroup(class) == Tail(class)

CodeMacro(language, content) ==
  LET param(name, value) ==
        El("ac:parameter", << <<"ac:name", <<name>> >> >>, value, <<>>)
  IN El("ac:structured-macro",
        << <<"ac:name", <<"code">> >>, <<"ac:schema-version", <<"1">> >> >>,
        <<>>,
        << param("theme", <<"Midnight">>),
           param("language", language),
           param("linenumbers", <<"true">>),
           El("ac:plain-text-body", <<>>, content, <<>>) >>)

\* the block transform as it would be without the check against _languages
_transform_block_any_language(child, code, lks, imgs) ==
  LET class == IF HasAttr(code.attrib, "class")
               THEN Attr(code.attrib, "class") ELSE <<>>
      content == IF code.text = <<>> THEN <<"None">> ELSE code.text
  IN IF class # <<>> /\ ~LanguageMatch(class)
     THEN Result("error", NoNode, child, lks, imgs, "AttributeError")
     ELSE LET language == IF class # <<>> THEN LanguageGroup(class) ELSE <<"none">>
              r == element_from_string_list(<<CodeMacro(language, content)>>)
          IN Result("node", r.node, child, lks, imgs, "none")

\* the block transform as it would be if a class that does not match
\* fell back to "none"
_transform_block_lenient(child, code, lks, imgs) ==
  LET class == IF HasAttr(code.attrib, "class")
               THEN Attr(code.attrib, "class") ELSE <<>>
      content == IF code.text = <<>> THEN <<"None">> ELSE code.text
      extracted == IF LanguageMatch(class) THEN LanguageGroup(class) ELSE <<>>
      language == IF extracted \in {<<l>> : l \in _languages}
                  THEN extracted ELSE <<"none">>
      r == element_from_string_list(<<CodeMacro(language, content)>>)
  IN Result("node", r.node, child, lks, imgs, "none")

\* class is <<>> both for a missing attribute (None) and for an empty one:
\* `if language:` skips the match for either, and neither is in _languages
_transform_block(child, code, lks, imgs) ==
  LET class == IF HasAttr(code.attrib, "class")
               THEN Attr(code.attrib, "class") ELSE <<>>
      \* f"{content}" of code.text: None is formatted as the word None
      content == IF code.text = <<>> THEN <<"None">> ELSE code.text
  IN IF class # <<>> /\ ~LanguageMatch(class)
     THEN Result("error", NoNode, child, lks, imgs, "AttributeError")
     ELSE LET extracted == IF class # <<>> THEN LanguageGroup(class) ELSE class
              language == IF extracted \in {<<l>> : l \in _languages}
                          THEN extracted ELSE <<"none">>
              r == element_from_string_list(<<CodeMacro(language, content)>>)
          IN Result("node", r.node, child, lks, imgs, "none")

\* the dispatch as it would be without the image paragraph rule
ConverterTransformNoParagraph(child, lks, imgs) ==
  IF child.tag = "img"
  THEN _transform_image(child, child, lks, imgs)
  ELSE IF child.tag = "a"
  THEN _transform_link(child, lks, imgs)
  ELSE IF child.tag = "pre" /\ Len(child.children) = 1
          /\ child.children[1].tag = "code"
  THEN _transform_block(child, child.children[1], lks, imgs)
  ELSE Result("none", NoNode, child, lks, imgs, "none")

ConverterTransform(child, lks, imgs) ==
  IF child.tag = "p" /\ Len(child.children) = 1 /\ child.children[1].tag = "img"
  THEN _transform_image(child, child.children[1], lks, imgs)
  ELSE IF child.tag = "img"
  THEN _transform_image(child, child, lks, imgs)
  ELSE IF child.tag = "a"
  THEN _transform_link(child, lks, imgs)
  ELSE IF child.tag = "pre" /\ Len(child.children) = 1
          /\ child.children[1].tag = "code"
  THEN _transform_block(child, child.children[1], lks, imgs)
  ELSE Result("none", NoNode, child, lks, imgs, "none")

----------------------------------------------------------------------------
(* ConfluenceStorageFormatCleaner *)

CleanerTransform(child, lks, imgs) ==
  Result("none", NoNode,
         [child EXCEPT !.attrib = Pop(Pop(@, "ac:macro-id"), "ri:version-at-save")],
         lks, imgs, "none")

\* the transform hook of the visitor the entry point runs
Transform(e, child, lks, imgs) ==
  IF e = "document" THEN ConverterTransform(child, lks, imgs)
  ELSE CleanerTransform(child, lks, imgs)

----------------------------------------------------------------------------
(* The page identifier comment *)

Digits == {"42", "007"}

RECURSIVE LeadingWs(_)
\* how many whitespace tokens s starts with (\s* and \s+)
LeadingWs(s) ==
  IF s # <<>> /\ Head(s) = " " THEN 1 + LeadingWs(Tail(s)) ELSE 0

Drop(s, n) == SubSeq(s, n + 1, Len(s))

\* <!--\s+confluence-page-id:\s*(\d+)\s+--> on one comment: <<group(1)>>
\* when the comment matches, <<>> when it does not
PageIdGroup(text) ==
  LET s1 == Drop(text, LeadingWs(text))
  IN IF LeadingWs(text) < 1 \/ s1 = <<>> \/ Head(s1) # "confluence-page-id:"
     THEN <<>>
     ELSE LET s2 == Tail(s1)
              s3 == Drop(s2, LeadingWs(s2))
          IN IF s3 = <<>> \/ Head(s3) \notin Digits THEN <<>>
             ELSE LET s4 == Tail(s3)
                  IN IF LeadingWs(s4) >= 1 /\ LeadingWs(s4) = Len(s4)
                     THEN <<Head(s3)>> ELSE <<>>

IsPageIdComment(item) == item.tag = "#comment" /\ PageIdGroup(item.text) # <<>>

\* the search as it would be if it kept the rightmost match
re_search_last(items) ==
  IF \E i \in 1..Len(items) : IsPageIdComment(items[i])
  THEN CHOOSE i \in 1..Len(items) :
         /\ IsPageIdComment(items[i])
         /\ \A j \in (i + 1)..Len(items) : ~IsPageIdComment(items[j])
  ELSE 0

\* re.search: the position of the leftmost match in html, 0 for None
re_search(items) ==
  IF \E i \in 1..Len(items) : IsPageIdComment(items[i])
  THEN CHOOSE i \in 1..Len(items) :
         /\ IsPageIdComment(items[i])
         /\ \A j \in 1..(i - 1) : ~IsPageIdComment(items[j])
  ELSE 0

Banner ==
  El("ac:structured-macro",
     << <<"ac:name", <<"info">> >>, <<"ac:schema-version", <<"1">> >> >>,
     <<>>,
     << El("ac:rich-text-body", <<>>, <<>>,
           << El("p", <<>>, <<"This page has been generated with a tool.">>, <<>>) >>) >>)

----------------------------------------------------------------------------
(* Serialization *)

Tok(t, tag, attrib, text) == [t |-> t, tag |-> tag, attrib |-> attrib, text |-> text]

RECURSIVE tostring(_)
\* ET.tostring(node): the markup as a sequence of tags, texts and comments
tostring(node) ==
  IF node.tag = "#comment" THEN <<Tok("comment", "", <<>>, node.text)>>
  ELSE <<Tok("open", node.tag, node.attrib, <<>>)>>
       \o (IF node.text # <<>> THEN <<Tok("text", "", <<>>, node.text)>> ELSE <<>>)
       \o Concat([i \in 1..Len(node.children) |-> tostring(node.children[i])])
       \o <<Tok("close", node.tag, <<>>, <<>>)>>

\* re.match(r"^<root\s+[^>]*>(.*)</root>\s*$", xml).group(1); a failed match
\* is None, and None.group raises AttributeError
_content_to_string(node) ==
  LET xml == tostring(node)
  IN IF Head(xml).t = "open" /\ Head(xml).tag = "root" /\ Head(xml).attrib # <<>>
     THEN [err |-> "none", out |-> SubSeq(xml, 2, Len(xml) - 1)]
     ELSE [err |-> "AttributeError", out |-> <<>>]

----------------------------------------------------------------------------
(* The inputs: HTML given to ConfluenceDocument, markup given to           *)
(* sanitize_confluence                                                     *)

\* how deep the generated elements nest, and how many children a generated
\* parent holds at most
MaxDepth == 2
MaxKids == 2

Img(attrib, children) == El("img", attrib, <<>>, children)
A(attrib, children) == El("a", attrib, <<"text">>, children)
Code(attrib, text) == El("code", attrib, text, <<>>)

ImgFull == Img(<< <<"src", <<"a.png">> >>, <<"alt", <<"Cap">> >> >>, <<>>)
ImgNoAlt == Img(<< <<"src", <<"b.png">> >> >>, <<>>)
ImgNoSrc == Img(<< <<"alt", <<"Cap">> >> >>, <<>>)
ImgAmp == Img(<< <<"src", <<"c.png">> >>, <<"alt", <<"R", "&", "D">> >> >>, <<>>)

RelUrl == <<"./doc.md">>
AbsUrl == <<"https:", "//", "x.com", "/y">>
ARel == A(<< <<"href", RelUrl>> >>, <<>>)
AAbs == A(<< <<"href", AbsUrl>>, <<"title", <<"t">> >> >>, <<>>)
ANoHref == A(<< <<"name", <<"top">> >> >>, <<>>)
AMailto == A(<< <<"href", <<"mailto:", "a@b">> >> >>, <<>>)
ASchemeRel == A(<< <<"href", <<"//", "x.com", "/y">> >> >>, <<>>)

CodePlain == Code(<<>>, <<"x=1">>)
CodePy == Code(<< <<"class", <<"language-", "python">> >> >>, <<"x=1">>)
CodeUnknown == Code(<< <<"class", <<"language-", "unknownlang">> >> >>, <<"x=1">>)
CodeBad == Code(<< <<"class", <<"python">> >> >>, <<"x=1">>)
CodeEmpty == Code(<< <<"class", <<>> >> >>, <<"x=1">>)
CodeNoText == Code(<< <<"class", <<"language-", "sql">> >> >>, <<>>)

Images == {ImgFull, ImgNoAlt, ImgNoSrc, ImgAmp}
Anchors == {ARel, AAbs, ANoHref, AMailto, ASchemeRel}
Codes == {CodePlain, CodePy, CodeUnknown, CodeBad, CodeEmpty, CodeNoText}

\* the recognized shapes, one level, with every variant of their attributes
FlatCases ==
  Images \cup Anchors
  \cup {El("p", <<>>, <<>>, <<i>>) : i \in Images}
  \cup {El("pre", <<>>, <<>>, <<c>>) : c \in Codes}
  \cup {El("p", <<>>, <<"text">>, <<>>), CodePy}

Core == {ImgFull, ARel, CodeBad}

\* a parent of tag t around the given children
Shell(t, kids) ==
  IF t = "img" THEN Img(<< <<"src", <<"z.png">> >>, <<"alt", <<"Z">> >> >>, kids)
  ELSE IF t = "a" THEN A(<< <<"href", <<"./up.md">> >> >>, kids)
  ELSE El(t, <<>>, <<>>, kids)

ShellTags == {"p", "pre", "div", "a", "img"}

\* e followed by up to MaxKids - 1 copies of sib
Kids(e, sib) == {<<e>> \o [i \in 1..k |-> sib] : k \in 0..(MaxKids - 1)}

RECURSIVE Nested(_)
Nested(d) ==
  IF d = 0 THEN Core
  ELSE Nested(d - 1)
       \cup {Shell(t, kids) : t \in ShellTags,
                              kids \in UNION {Kids(e, ImgFull) : e \in Nested(d - 1)}}

Comment(text) == El("#comment", <<>>, text, <<>>)
C42 == Comment(<<" ", "confluence-page-id:", " ", "42", " ">>)
C007 == Comment(<<" ", " ", "confluence-page-id:", "007", " ">>)
CNoSpace == Comment(<<"confluence-page-id:", " ", "42", " ">>)
COther == Comment(<<" ", "note", " ">>)

Opt(S) == {<<>>} \cup {<<e>> : e \in S}

HtmlInputs ==
  {b1 \o mid \o b2 \o post :
     b1 \in Opt(FlatCases \cup Nested(1)),
     mid \in Opt({C42, CNoSpace}),
     b2 \in Opt({ImgFull, SyntaxError}),
     post \in Opt({C007, COther})}
  \cup {<<e, C42, ImgFull>> : e \in Nested(MaxDepth)}

AttV == El("ri:attachment",
           << <<"ri:filename", <<"a.png">> >>, <<"ri:version-at-save", <<"3">> >> >>,
           <<>>, <<>>)
ParamPlain == El("ac:parameter", << <<"ac:name", <<"theme">> >> >>, <<"Midnight">>, <<>>)

StorageShell(t, kids) ==
  IF t = "ac:structured-macro"
  THEN El(t, << <<"ac:name", <<"code">> >>, <<"ac:macro-id", <<"9f">> >>,
                <<"ac:schema-version", <<"1">> >> >>, <<>>, kids)
  ELSE IF t = "ac:image"
  THEN El(t, << <<"ri:version-at-save", <<"1">> >>, <<"ac:align", <<"center">> >>,
                <<"ac:macro-id", <<"07">> >> >>, <<>>, kids)
  ELSE El(t, <<>>, <<>>, kids)

StorageTags == {"ac:structured-macro", "ac:image", "p"}

RECURSIVE Storage(_)
Storage(d) ==
  IF d = 0 THEN {AttV, ParamPlain}
  ELSE Storage(d - 1)
       \cup {StorageShell(t, kids) : t \in StorageTags,
                                     kids \in UNION {Kids(e, AttV) : e \in Storage(d - 1)}}

MarkupInputs ==
  {<<>>, <<SyntaxError>>}
  \cup UNION {{<<e>>, <<e, AttV>>, <<ParamPlain, e>>} : e \in Storage(MaxDepth)}

----------------------------------------------------------------------------
(* The state machine *)

NoStep ==
  [path |-> <<>>, kind |-> "start", child |-> NoNode, target |-> NoNode,
   links |-> <<>>, images |-> <<>>]

Init ==
  /\ entry \in {"document", "sanitize"}
  /\ html \in (IF entry = "document" THEN HtmlInputs ELSE MarkupInputs)
  /\ pc = "start"
  /\ err = NoErr
  /\ id = <<>>
  /\ root = NoNode
  /\ stack = <<>>
  /\ links = <<>>
  /\ images = <<>>
  /\ doc_links = <<>>
  /\ doc_images = <<>>
  /\ out = <<>>
  /\ transformed = <<>>
  /\ visited = <<>>
  /\ replaced = {}
  /\ last = NoStep

\* self.visit(node) is entered for the element at path: a node without
\* children returns at once, another one runs its loop from index 1 over
\* range(len(node))
Call(stk, node, path) ==
  IF Len(node.children) < 1 THEN stk
  ELSE Append(stk, [path |-> path, index |-> 1, n |-> Len(node.children)])

Raise(kind, at) ==
  /\ pc' = "error"
  /\ err' = [kind |-> kind, at |-> at]

\* ConfluenceDocument.__init__ up to the call of converter.visit(self.root)
DocumentInit ==
  /\ pc = "start" /\ entry = "document"
  /\ LET m == re_search(html)
         r == element_from_string_list(
                <<Banner>> \o SubSeq(html, 1, m - 1) \o SubSeq(html, m + 1, Len(html)))
     IN IF m = 0
        THEN /\ Raise("AttributeError", "search")
             /\ UNCHANGED <<id, root, stack, visited>>
        ELSE /\ id' = PageIdGroup(html[m].text)
             /\ IF r.err # "none"
                THEN /\ Raise(r.err, "parse")
                     /\ UNCHANGED <<root, stack, visited>>
                ELSE /\ root' = r.node
                     /\ stack' = Call(<<>>, r.node, <<>>)
                     /\ visited' = <<<<>>>>
                     /\ pc' = "walk"
                     /\ err' = err
  /\ UNCHANGED <<entry, html, links, images, doc_links, doc_images, out,
                 transformed, replaced, last>>

\* sanitize_confluence up to the call of ConfluenceStorageFormatCleaner().visit(root)
SanitizeInit ==
  /\ pc = "start" /\ entry = "sanitize"
  /\ LET r == element_from_string(html)
     IN IF r.err # "none"
        THEN /\ Raise(r.err, "parse")
             /\ UNCHANGED <<root, stack, visited>>
        ELSE /\ root' = r.node
             /\ stack' = Call(<<>>, r.node, <<>>)
             /\ visited' = <<<<>>>>
             /\ pc' = "walk"
             /\ err' = err
  /\ UNCHANGED <<entry, html, id, links, images, doc_links, doc_images, out,
                 transformed, replaced, last>>

\* the visitor as it would be if it went on into a replacement as well
RecursesAlways(r) == TRUE

\* `if target is not None: node[index] = target / else: self.visit(source)`:
\* whether the visitor goes on into the child
Recurses(r) == r.kind = "none"

\* one iteration of the loop of NodeVisitor.visit
VisitStep ==
  /\ pc = "walk" /\ stack # <<>>
  /\ LET top == stack[Len(stack)]
         at == Append(top.path, top.index)
         source == NodeAt(root, at)
         r == Transform(entry, source, links, images)
         newRoot == ReplaceAt(root, at, IF r.kind = "node" THEN r.target ELSE r.child)
         caller == [stack EXCEPT ![Len(stack)].index = top.index + 1]
     IN /\ top.index <= top.n
        /\ transformed' = Append(transformed, at)
        /\ links' = r.links
        /\ images' = r.images
        /\ last' = [path |-> at, kind |-> r.kind, child |-> source,
                    target |-> r.target, links |-> links, images |-> images]
        /\ IF r.kind = "error"
           THEN /\ Raise(r.err, "transform")
                /\ UNCHANGED <<root, stack, visited, replaced>>
           ELSE /\ root' = newRoot
                /\ replaced' = IF r.kind = "node" THEN replaced \cup {at} ELSE replaced
                /\ IF Recurses(r)
                   THEN /\ stack' = Call(caller, NodeAt(newRoot, at), at)
                        /\ visited' = Append(visited, at)
                   ELSE /\ stack' = caller
                        /\ visited' = visited
                /\ UNCHANGED <<pc, err>>
  /\ UNCHANGED <<entry, html, id, doc_links, doc_images, out>>

\* the loop of a visit call is over: return to the caller
VisitReturn ==
  /\ pc = "walk" /\ stack # <<>>
  /\ stack[Len(stack)].index > stack[Len(stack)].n
  /\ stack' = SubSeq(stack, 1, Len(stack) - 1)
  /\ UNCHANGED <<entry, html, pc, err, id, root, links, images, doc_links,
                 doc_images, out, transformed, visited, replaced, last>>

\* the end of the constructor as it would be if it kept fresh lists
DocumentFinishFreshLists ==
  /\ pc = "walk" /\ stack = <<>> /\ entry = "document"
  /\ doc_links' = <<>>
  /\ doc_images' = <<>>
  /\ pc' = "built"
  /\ UNCHANGED <<entry, html, err, id, root, stack, links, images, out,
                 transformed, visited, replaced, last>>

\* converter.visit returned: self.links, self.images are the converter's lists
DocumentFinish ==
  /\ pc = "walk" /\ stack = <<>> /\ entry = "document"
  /\ doc_links' = links
  /\ doc_images' = images
  /\ pc' = "built"
  /\ UNCHANGED <<entry, html, err, id, root, stack, links, images, out,
                 transformed, visited, replaced, last>>

Serialize ==
  LET r == _content_to_string(root)
  IN IF r.err # "none"
     THEN Raise(r.err, "serialize") /\ out' = out
     ELSE pc' = "done" /\ err' = err /\ out' = r.out

\* ConfluenceDocument.xhtml
Xhtml ==
  /\ pc = "built"
  /\ Serialize
  /\ UNCHANGED <<entry, html, id, root, stack, links, images, doc_links,
                 doc_images, transformed, visited, replaced, last>>

\* the cleaner's visit returned: sanitize_confluence serializes the root
SanitizeFinish ==
  /\ pc = "walk" /\ stack = <<>> /\ entry = "sanitize"
  /\ Serialize
  /\ UNCHANGED <<entry, html, id, root, stack, links, images, doc_links,
                 doc_images, transformed, visited, replaced, last>>

Next ==
  \/ DocumentInit
  \/ SanitizeInit
  \/ VisitStep
  \/ VisitReturn
  \/ DocumentFinish
  \/ Xhtml
  \/ SanitizeFinish

Spec == Init /\ [][Next]_vars

----------------------------------------------------------------------------
(* Vocabulary of the properties *)

Range(s) == {s[i] : i \in 1..Len(s)}

\* p is the path of q or of an ancestor of q
Covers(p, q) == IsPrefix(p, q)

\* the tree the visitor starts from, as the builder returned it
InitialRoot ==
  IF entry = "document"
  THEN LET m == re_search(html)
       IN element_from_string_list(
            <<Banner>> \o SubSeq(html, 1, m - 1) \o SubSeq(html, m + 1, Len(html))).node
  ELSE element_from_string(html).node

Walked == pc \in {"built", "done"} \/ (pc = "error" /\ err.at = "serialize")

StepTaken == last.kind # "start"

\* <p><img/></p>: a paragraph whose only child is an image
IsImgPara(c) ==
  c.tag = "p" /\ Len(c.children) = 1 /\ c.children[1].tag = "img"

\* <pre><code/></pre>
IsCodeBlock(c) ==
  c.tag = "pre" /\ Len(c.children) = 1 /\ c.children[1].tag = "code"

----------------------------------------------------------------------------
\* C1: in every visit, a child for which transform returned a replacement
\* holds that replacement at the same index and no element of the
\* replacement's subtree is ever passed to transform or to visit; a child
\* for which transform returned nothing is the one visit recurses into.
C1_ReplaceOrRecurse ==
  /\ \A i \in 1..Len(transformed) :
       /\ \A p \in replaced : Covers(p, transformed[i]) => p = transformed[i]
       /\ \A j \in 1..Len(transformed) : transformed[i] = transformed[j] => i = j
  /\ \A i \in 1..Len(visited) : \A p \in replaced : ~Covers(p, visited[i])
  /\ last.kind = "node" =>
       /\ NodeAt(root, last.path) = last.target
       /\ last.path \in replaced
       /\ Len(NodeAt(root, SubSeq(last.path, 1, Len(last.path) - 1)).children)
            = Len(NodeAt(InitialRoot, SubSeq(last.path, 1, Len(last.path) - 1)).children)
  /\ last.kind = "none" =>
       /\ visited[Len(visited)] = last.path
       /\ entry = "document" => NodeAt(root, last.path) = last.child

\* a walk that replaced a child and went on to later children
C1_Witness ==
  /\ pc = "built"
  /\ \E i \in 1..Len(transformed) :
       /\ transformed[i] \in replaced
       /\ i < Len(transformed)
       /\ NodeAt(root, transformed[i]).tag \in {"ac:image", "ac:structured-macro"}

----------------------------------------------------------------------------
\* the ac:image macro for an image: centered, the attachment carrying src,
\* the caption paragraph carrying alt
IsImageMacroOf(n, img) ==
  /\ n.tag = "ac:image"
  /\ Len(n.children) = 2
  /\ n.children[1].tag = "ri:attachment"
  /\ n.children[1].attrib = << <<"ri:filename", Attr(img.attrib, "src")>> >>
  /\ n.children[2].tag = "ac:caption"
  /\ n.children[2].children[1].tag = "p"
  /\ n.children[2].children[1].text = Attr(img.attrib, "alt")

\* what an image rule may do with img: replace the child by the macro and
\* append src once, or raise
ImageOutcome(img) ==
  \/ /\ last.kind = "node"
     /\ IsImageMacroOf(last.target, img)
     /\ NodeAt(root, last.path) = last.target
     /\ images = Append(last.images, Attr(img.attrib, "src"))
     /\ links = last.links
  \/ /\ last.kind = "error"
     /\ links = last.links
     /\ IsPrefix(last.images, images) /\ Len(images) <= Len(last.images) + 1

\* C2: the converter's transform applies the first matching rule in the
\* order image paragraph, bare image, anchor, code block, nothing; a
\* paragraph whose only child is an image is replaced by exactly one
\* ac:image macro, without the paragraph, and its src is appended to images
\* exactly once.
C2_Dispatch ==
  entry = "document" =>
    /\ StepTaken =>
         IF IsImgPara(last.child) THEN ImageOutcome(last.child.children[1])
         ELSE IF last.child.tag = "img" THEN ImageOutcome(last.child)
         ELSE IF last.child.tag = "a"
           THEN last.kind \in {"none", "error"} /\ images = last.images
         ELSE IF IsCodeBlock(last.child)
           THEN /\ last.kind \in {"node", "error"}
                /\ images = last.images /\ links = last.links
                /\ last.kind = "node" =>
                     /\ last.target.tag = "ac:structured-macro"
                     /\ NodeAt(root, last.path) = last.target
         ELSE /\ last.kind = "none"
              /\ images = last.images /\ links = last.links
              /\ NodeAt(root, last.path) = last.child
    /\ Walked =>
         /\ \A i \in 1..Len(transformed) :
              IsImgPara(NodeAt(InitialRoot, transformed[i])) =>
                IsImageMacroOf(NodeAt(root, transformed[i]),
                               NodeAt(InitialRoot, transformed[i]).children[1])
         /\ Len(images) =
              Cardinality({i \in 1..Len(transformed) :
                             LET c == NodeAt(InitialRoot, transformed[i])
                             IN IsImgPara(c) \/ c.tag = "img"})

\* a finished walk that met an image paragraph below the top level
C2_Witness ==
  /\ entry = "document" /\ pc = "built"
  /\ \E i \in 1..Len(transformed) :
       /\ IsImgPara(NodeAt(InitialRoot, transformed[i]))
       /\ Len(transformed[i]) >= 2
       /\ NodeAt(root, transformed[i]).tag = "ac:image"

----------------------------------------------------------------------------
\* the hrefs of the inputs that have no network location
LocalUrls == {<<"./doc.md">>, <<"./up.md">>, <<"mailto:", "a@b">>}

\* C3: for an anchor with an href, the link transform appends the href to
\* links when it is not absolute and leaves links alone when it is; images
\* is untouched, the anchor stays in place unchanged, and the visitor goes
\* on into the anchor's children.
C3_Anchor ==
  /\ (entry = "document" /\ StepTaken /\ last.child.tag = "a"
      /\ HasAttr(last.child.attrib, "href")) =>
       LET href == Attr(last.child.attrib, "href")
       IN /\ last.kind = "none"
          /\ links = IF href \in LocalUrls THEN Append(last.links, href)
                     ELSE last.links
          /\ images = last.images
          /\ NodeAt(root, last.path) = last.child
          /\ last.path \notin replaced
          /\ visited[Len(visited)] = last.path
  /\ (entry = "document" /\ Walked) =>
       \A i \in 1..Len(transformed) :
         LET c == NodeAt(InitialRoot, transformed[i])
         IN c.tag = "a" =>
              /\ NodeAt(root, transformed[i]).tag = "a"
              /\ NodeAt(root, transformed[i]).attrib = c.attrib
              /\ \A k \in 1..Len(c.children) :
                   Append(transformed[i], k) \in Range(transformed)

\* a finished walk over a relative anchor, an absolute one, and an anchor
\* whose children were visited
C3_Witness ==
  /\ entry = "document" /\ pc = "built"
  /\ \E i \in 1..Len(transformed) :
       LET c == NodeAt(InitialRoot, transformed[i])
       IN /\ c.tag = "a" /\ c.children # <<>>
          /\ Attr(c.attrib, "href") \in Range(links)
          /\ Append(transformed[i], 1) \in replaced

\* an absolute anchor leaves links as it was
C3_WitnessAbsolute ==
  /\ entry = "document" /\ StepTaken /\ last.child = AAbs
  /\ last.kind = "none" /\ links = last.links

----------------------------------------------------------------------------
\* the class attribute of a code element, <<>> when it has none
ClassOf(code) ==
  IF HasAttr(code.attrib, "class") THEN Attr(code.attrib, "class") ELSE <<>>

\* C4: the language parameter of an emitted code macro is the name of
\* class="language-<name>" when that name is recognized, and "none" when
\* there is no class or the name is not recognized; the parameters are
\* theme=Midnight, language, linenumbers=true, in that order, followed by
\* the plain text body.
C4_Language ==
  (entry = "document" /\ StepTaken /\ IsCodeBlock(last.child)
   /\ last.kind = "node") =>
    LET code == last.child.children[1]
        class == ClassOf(code)
        m == last.target
        language == m.children[2].text
        name(k) == Attr(m.children[k].attrib, "ac:name")
    IN /\ m.tag = "ac:structured-macro"
       /\ Attr(m.attrib, "ac:name") = <<"code">>
       /\ Len(m.children) = 4
       /\ \A k \in 1..3 : m.children[k].tag = "ac:parameter"
       /\ <<name(1), name(2), name(3)>> = << <<"theme">>, <<"language">>, <<"linenumbers">> >>
       /\ m.children[1].text = <<"Midnight">>
       /\ m.children[3].text = <<"true">>
       /\ m.children[4].tag = "ac:plain-text-body"
       /\ code.text # <<>> => m.children[4].text = code.text
       /\ Len(language) = 1
       /\ language[1] \in _languages \cup {"none"}
       /\ (Len(class) = 2 /\ class[1] = "language-" /\ class[2] \in _languages)
            => language = <<class[2]>>
       /\ (~HasAttr(code.attrib, "class")
           \/ (Len(class) = 2 /\ class[1] = "language-" /\ class[2] \notin _languages))
            => language = <<"none">>

\* a code block of an unrecognized language was rewritten
C4_Witness ==
  /\ entry = "document" /\ StepTaken /\ last.kind = "node"
  /\ IsCodeBlock(last.child)
  /\ ClassOf(last.child.children[1]) = <<"language-", "unknownlang">>
  /\ last.target.children[2].text = <<"none">>

----------------------------------------------------------------------------
\* C5 as stated: a code block whose class attribute is present and does not
\* match language-<name> makes the transform fail.
C5_MalformedClassFails ==
  (entry = "document" /\ StepTaken /\ IsCodeBlock(last.child)
   /\ HasAttr(last.child.children[1].attrib, "class")
   /\ ~(ClassOf(last.child.children[1]) # <<>>
        /\ ClassOf(last.child.children[1])[1] = "language-")) =>
    last.kind = "error"

\* C5, amended: a class attribute that is present, not empty and does not
\* match language-<name> makes the transform fail with the error leaving the
\* conversion and no macro emitted; an empty class attribute is treated as
\* a missing one and yields "none".
C5_NonEmptyMalformedClassFails ==
  (entry = "document" /\ StepTaken /\ IsCodeBlock(last.child)
   /\ HasAttr(last.child.children[1].attrib, "class")) =>
    LET class == ClassOf(last.child.children[1])
    IN /\ (class # <<>> /\ class[1] # "language-") =>
            /\ last.kind = "error"
            /\ pc = "error" /\ err = [kind |-> "AttributeError", at |-> "transform"]
            /\ NodeAt(root, last.path) = last.child
            /\ last.path \notin replaced
       /\ class = <<>> =>
            /\ last.kind = "node"
            /\ last.target.children[2].text = <<"none">>

\* the conversion stopped on a code block of class "python"
C5_Witness ==
  /\ entry = "document" /\ pc = "error" /\ err.at = "transform"
  /\ IsCodeBlock(last.child)
  /\ ClassOf(last.child.children[1]) = <<"python">>

----------------------------------------------------------------------------
\* the identifier comments of the inputs, and how many of them html holds
IdComments == {C42, C007}
IdCount == Cardinality({i \in 1..Len(html) : html[i] \in IdComments})
FirstId ==
  LET i == CHOOSE k \in 1..Len(html) :
             html[k] \in IdComments /\ \A j \in 1..(k - 1) : html[j] \notin IdComments
  IN IF html[i] = C42 THEN <<"42">> ELSE <<"007">>

Proceeded == pc \in {"walk", "built", "done"} \/ (pc = "error" /\ err.at # "search")

\* C6 as stated: the construction of a document does not proceed unless the
\* HTML holds exactly one identifier comment.
C6_ExactlyOneOrFail ==
  (entry = "document" /\ IdCount # 1) => ~Proceeded

\* C6, amended: the construction fails when the HTML holds no identifier
\* comment; when it holds one or more it goes on with the leftmost one, and
\* the later ones stay in the tree as comments.
C6_NoneFailsFirstWins ==
  entry = "document" =>
    /\ IdCount = 0 =>
         /\ pc \in {"start", "error"}
         /\ pc = "error" => err = [kind |-> "AttributeError", at |-> "search"]
    /\ (IdCount >= 1 /\ pc # "start") =>
         /\ Proceeded
         /\ id = FirstId
    /\ (IdCount >= 2 /\ pc \in {"walk", "built", "done"}) =>
         Cardinality({k \in 1..Len(root.children) : root.children[k] \in IdComments})
           = IdCount - 1

\* a document was built from HTML with two identifier comments
C6_Witness ==
  /\ entry = "document" /\ IdCount = 2 /\ pc = "built"
  /\ id = <<"42">>

----------------------------------------------------------------------------
\* an image the image transform raises on
ImgHazard(img) ==
  \/ ~HasAttr(img.attrib, "src")
  \/ ~HasAttr(img.attrib, "alt")
  \/ "&" \in Range(Attr(img.attrib, "src")) \cup Range(Attr(img.attrib, "alt"))

RECURSIVE Hazard(_)
\* the walk below node meets an element a transform raises on
Hazard(node) ==
  \E k \in 1..Len(node.children) :
    LET c == node.children[k]
    IN IF IsImgPara(c) THEN ImgHazard(c.children[1])
       ELSE IF c.tag = "img" THEN ImgHazard(c)
       ELSE IF c.tag = "a" THEN ~HasAttr(c.attrib, "href") \/ Hazard(c)
       ELSE IF IsCodeBlock(c)
         THEN ClassOf(c.children[1]) # <<>> /\ ClassOf(c.children[1])[1] # "language-"
       ELSE Hazard(c)

----------------------------------------------------------------------------
Volatile == {"ac:macro-id", "ri:version-at-save"}

RECURSIVE StripAll(_)
\* node without the volatile attributes, at every depth
StripAll(node) ==
  [node EXCEPT
     !.attrib = LET keep(p) == p[1] \notin Volatile IN SelectSeq(@, keep),
     !.children = [k \in 1..Len(@) |-> StripAll(@[k])]]

CleanerDone ==
  /\ entry = "sanitize"
  /\ \/ pc = "walk" /\ stack = <<>>
     \/ pc = "done"
     \/ pc = "error" /\ err.at = "serialize"

\* C8 as stated: after the cleaner's visit no element of the tree, the
\* topmost one included, carries a volatile attribute, and nothing else has
\* changed.
C8_NoVolatileAnywhere ==
  CleanerDone => root = StripAll(InitialRoot)

----------------------------------------------------------------------------
\* C9 as stated: serialization succeeds for every tree the builder returned
\* and gives the serialized children of the synthetic root.
C9_SerializationSucceeds ==
  /\ pc = "error" => err.at # "serialize"
  /\ pc = "done" =>
       out = Concat([k \in 1..Len(root.children) |-> tostring(root.children[k])])

----------------------------------------------------------------------------
RECURSIVE ExpectedImages(_)
\* the src of the images a walk below node transforms, in document order
ExpectedImages(node) ==
  Concat([k \in 1..Len(node.children) |->
            LET c == node.children[k]
            IN IF IsImgPara(c) THEN <<Attr(c.children[1].attrib, "src")>>
               ELSE IF c.tag = "img" THEN <<Attr(c.attrib, "src")>>
               ELSE IF IsCodeBlock(c) THEN <<>>
               ELSE ExpectedImages(c)])

RECURSIVE ExpectedLinks(_)
\* the local hrefs of the anchors a walk below node transforms, in document
\* order
ExpectedLinks(node) ==
  Concat([k \in 1..Len(node.children) |->
            LET c == node.children[k]
            IN IF IsImgPara(c) \/ c.tag = "img" \/ IsCodeBlock(c) THEN <<>>
               ELSE IF c.tag = "a"
                 THEN (IF Attr(c.attrib, "href") \in LocalUrls
                       THEN <<Attr(c.attrib, "href")>> ELSE <<>>)
                      \o ExpectedLinks(c)
               ELSE ExpectedLinks(c)])

GrowsByAtMostOne(old, new) == IsPrefix(old, new) /\ Len(new) <= Len(old) + 1

\* C10: links and images start empty and every step leaves each of them
\* unchanged or appends one element to it; after the walk images holds the
\* src of the transformed images and links the local hrefs of the
\* transformed anchors, in depth-first left-to-right order, and nothing from
\* inside a replaced subtree.
C10_AppendOnlyInOrder ==
  /\ [](pc = "start" => links = <<>> /\ images = <<>>)
  /\ [][GrowsByAtMostOne(links, links') /\ GrowsByAtMostOne(images, images')]_vars
  /\ []((entry = "document" /\ Walked) =>
          /\ images = ExpectedImages(InitialRoot)
          /\ links = ExpectedLinks(InitialRoot))

\* a finished walk that collected two images and a link and replaced a
\* subtree holding an anchor
C10_Witness ==
  /\ entry = "document" /\ pc = "built"
  /\ Len(images) >= 2 /\ Len(links) >= 1
  /\ \E p \in replaced :
       LET c == NodeAt(InitialRoot, p)
       IN \E k \in 1..Len(c.children) : c.children[k].tag = "a"

====
